---- MODULE Spec2Model ----
(***************************************************************************)
(* The DDE array-trace client of PyZDDE (arrayTraceClient.c): one call of  *)
(* arrayTrace creates a window, broadcasts WM_DDE_INITIATE, pokes the ray  *)
(* buffer to the peer that acknowledged, polls for the WM_DDE_DATA reply   *)
(* in WaitForData, posts WM_DDE_TERMINATE and destroys the window.         *)
(* The peer (ZEMAX) is the environment: it acknowledges or not, and posts  *)
(* data, acknowledgement and terminate messages to the client window.      *)
(***************************************************************************)
EXTENDS Integers, Sequences, FiniteSets, TLC

VARIABLES
    pc,             \* "idle" (no call in progress), "wait" (top of the WaitForData loop), "waitdone" (WaitForData has returned)
    calls,          \* number of arrayTrace calls started so far
    \* ---- globals of arrayTraceClient.c
    GotData, ngNumRays, hwndServer, hwndClient, rdpGRD, gPtr2RD,
    DdeTimeout, RETVAL, szGlobalBuffer,
    \* ---- locals of WaitForData and the tick counter it reads
    sleep_count, dwTime, tick, startTick,
    \* ---- the client window and its posted-message queue
    window, queue,
    \* ---- the peer's DDEDATA flags in this conversation
    fAckReq, fRelease,
    \* ---- the caller: its record buffer and the wrapper's output arrays
    RD, nrays, outArr,
    \* ---- what the current (or, when idle, the last) call did
    path,           \* "none", "noack", "pokefail", "timeout", "completed"
    acked,          \* some peer acknowledged the WM_DDE_INITIATE broadcast
    entryRETVAL,    \* RETVAL when the call was entered
    sent,           \* the contents of the poke buffer as pushed (<<>> if none)
    allocs,         \* GlobalAlloc calls of the client
    pokeFrees,      \* GlobalFree calls of the client on the poke buffer
    pokePosts,      \* successful PostMessage(WM_DDE_POKE) calls
    polls,          \* iterations of the WaitForData loop
    overPolls,      \* iterations that ended with the elapsed time above DdeTimeout
    timedOut,       \* WaitForData has set RETVAL = -998
    exitRD,         \* the caller's buffer when WaitForData returned
    frees,          \* per reply handle posted by the peer: GlobalFree calls on it
    nDispatched,    \* WM_DDE_DATA messages dispatched to WndProc
    goodReply,      \* a CF_TEXT payload was copied into the caller's buffer
    ackFails,       \* WM_DDE_DATA dispatches whose WM_DDE_ACK could not be posted
    lateData,       \* a WM_DDE_DATA was dispatched after WaitForData set -998
    echoInTime,     \* the peer posted a CF_TEXT echo no later than the timeout
    otherData,      \* the peer posted a WM_DDE_DATA that is no CF_TEXT echo
    termPosts,      \* targets of the client's PostMessage(WM_DDE_TERMINATE)
    ackPosts,       \* successful PostMessage(WM_DDE_ACK) calls
    peerMsgs,       \* messages the peer has tried to post
    rejected,       \* peer posts that failed because the window is gone
    nTermDispatched,\* WM_DDE_TERMINATE messages dispatched to WndProc
    initiates,      \* WM_DDE_INITIATE broadcasts of the call
    \* ---- the connect step: the command line and the application atom
    szCommandLine, ZEMAX_INSTANCE, aApp, appAtoms,
    \* ---- GetString(szBuffer, n, szSubString)
    argN, szSubString, parsed,
    lastRead,       \* the highest index i at which GetString read szBuffer[i]
    \* ---- PostArrayTraceMessage: long numbytes and the size passed to GlobalAlloc
    numbytes, hPokeSize,
    ret,            \* rayTraceFunction: what PostArrayTraceMessage returned
    \* ---- two threads calling arrayTrace: per thread, its position, its
    \* window's queue, its polls and its returned status; the callers'
    \* buffers by address; what each poke carried; the copies made by
    \* WM_DDE_DATA as <<buffer written, request answered, records copied>>
    tpc, tqueue, tpolls, tret, heap, tpoked, copyLog,
    tentry,         \* per thread: where the other thread was when it entered arrayTrace
    \* ---- numpyOpticalPathDifference: its arguments nField, nPupil, nWave and
    \* its loop variables (iRay is the local i)
    nField, nPupil, nWave, iField, iPupil, iWave, iRay

prog == <<GotData, ngNumRays, hwndServer, hwndClient, rdpGRD, gPtr2RD,
          DdeTimeout, RETVAL, szGlobalBuffer, sleep_count, dwTime>>
env  == <<tick, startTick, window, queue, fAckReq, fRelease>>
user == <<RD, nrays, outArr>>
hist == <<path, acked, entryRETVAL, sent, allocs, pokeFrees, pokePosts, polls,
          overPolls, timedOut, exitRD, frees, nDispatched, goodReply, ackFails,
          lateData, echoInTime, otherData, termPosts, ackPosts, peerMsgs,
          rejected>>
conn == <<nTermDispatched, initiates, ZEMAX_INSTANCE, aApp, appAtoms, numbytes,
          hPokeSize, ret>>
parser == <<szCommandLine, argN, szSubString, parsed, lastRead>>
threads == <<tpc, tqueue, tpolls, tret, heap, tpoked, copyLog, tentry>>
sweep == <<nField, nPupil, nWave, iField, iPupil, iWave, iRay>>
vars == <<pc, calls, prog, env, user, hist, conn, parser, threads, sweep>>

---------------------------------------------------------------------------
\* Bounds of the model
MaxCalls == 2
MaxPeerMsgs == 2
MaxRays == 1
\* iterations of the WaitForData loop explored in one call (never reached by
\* a loop that honours the timeouts of Timeouts)
MaxPolls == 23

\* Calls of arrayTrace in a behaviour checked for termination
FairCalls == 1

\* Ray counts 0..MaxCount are encoded in headers, besides those of LargeCounts
MaxCount == 5

\* Command lines are built from strings of up to MaxLen characters, and
\* tokens 0..MaxIndex are asked of them
MaxLen == 3
MaxIndex == 3

\* numpyOpticalPathDifference is called with 0..MaxDim fields, pupil samples
\* and wavelengths
MaxDim == 3

\* Program constants
DDE_TIMEOUT == 1000
SLEEP_MS == 100
SLEEP_CHECK == 10
CF_TEXT == 1
CF_OTHER == CF_TEXT + 1
NULL == 0
STATUS_OK == 0
STATUS_TIMEOUT == -998
STATUS_UNREACHABLE == -999

\* GetTickCount() is an unsigned 32-bit counter, kept as two 16-bit halves
Half == 2^16

U32(hi, lo) == [hi |-> hi, lo |-> lo]

\* a + n modulo 2^32, for 0 <= n < 2^16
U32Add(a, n) ==
    LET lo == a.lo + n
    IN  [hi |-> (a.hi + (lo \div Half)) % Half, lo |-> lo % Half]

\* (mutant) a - b without the wrap: 0 when a is below b
U32Sub_Clamped(a, b) ==
    IF a.hi < b.hi \/ (a.hi = b.hi /\ a.lo < b.lo)
      THEN [hi |-> 0, lo |-> 0]
      ELSE [hi |-> a.hi - b.hi - (IF a.lo < b.lo THEN 1 ELSE 0),
            lo |-> (a.lo - b.lo) % Half]

\* a - b modulo 2^32 (the unsigned subtraction of WaitForData)
U32Sub(a, b) ==
    LET lo     == a.lo - b.lo
        borrow == IF lo < 0 THEN 1 ELSE 0
    IN  [hi |-> (a.hi - b.hi - borrow) % Half, lo |-> lo % Half]

\* a > n, for an unsigned a and 0 <= n < 2^31
U32Gt(a, n) ==
    \/ a.hi > n \div Half
    \/ a.hi = n \div Half /\ a.lo > n % Half

\* m * c as a number in base 2^16 with an unbounded high part,
\* for 0 <= m < 2^31 and 0 <= c < 2^15
Product(m, c) ==
    LET lo == (m % Half) * c
    IN  [hi |-> (m \div Half) * c + lo \div Half, lo |-> lo % Half]

\* the low 32 bits of a number in base 2^16
Low32(p) == [hi |-> p.hi % Half, lo |-> p.lo]

\* sizeof(DDERAYDATA): 14 doubles and 4 ints
SizeofDDERAYDATA == 14 * 8 + 4 * 4

\* sizeof(DDEPOKE) of dde.h: 16 flag bits, short cfFormat, BYTE Value[1], padding
SizeofDDEPOKE == 2 + 2 + 1 + 1

\* PostArrayTraceMessage: numbytes = (1 + numrays)*sizeof(DDERAYDATA), the
\* product converted to the 32-bit long
NumBytes(numrays) == Low32(Product(1 + numrays, SizeofDDERAYDATA))

\* PostArrayTraceMessage: the size passed to GlobalAlloc
AllocSize(nbytes) == U32Add(nbytes, SizeofDDEPOKE)

\* Window handles of the peers that may answer the broadcast
Peers == {1, 2}

\* timeout arguments of the calls
Timeouts == {500, 1100}

\* The iterations of the wait during whose Sleep the peer may post: the
\* first, and the ones right before an elapsed-time check
PostPolls == {0, 10, 21}

\* The orders in which peers acknowledge the broadcast synchronously
\* The peer the client talks to (ZEMAX), and another DDE server
Zemax == CHOOSE p \in Peers : \A q \in Peers : p <= q
Other == CHOOSE p \in Peers : p # Zemax

AckSeqs == {<<>>, <<Zemax>>, <<Zemax, Other>>}

---------------------------------------------------------------------------
\* DDERAYDATA, reduced to the fields the client reads (opd, error) and one
\* coordinate; record 0 is the header.
Ray(i) == [opd |-> 0, error |-> 0, x |-> i]

\* numpyGetTrace's header: opd = 0 (mode), error = nrays
HeaderSeq(n) == [opd |-> 0, error |-> n, x |-> 0]

\* the NSC header: opd = nrays + 5
HeaderNSC(n) == [opd |-> n + 5, error |-> 0, x |-> 0]

\* a sequential header of the other wrappers: opd holds a mode 0..4 and
\* error the number of rays
HeaderMode(mode, n) == [opd |-> mode, error |-> n, x |-> 0]

\* Ray counts beyond the small ones: 1000, and the two around the point
\* where (n + 1) * sizeof(DDERAYDATA) reaches 2^31
LargeCounts == {1000, 2^24 - 2, 2^24 - 1}

Counts == (0..MaxCount) \cup LargeCounts

\* The headers that encode n rays
HeadersOf(n) == {HeaderMode(mode, n) : mode \in 0..4} \cup {HeaderNSC(n)}

BuildRD(hdr, n) == <<hdr>> \o [i \in 1..n |-> Ray(i)]

InputBuffers == {BuildRD(HeaderSeq(n), n) : n \in 1..MaxRays}
                  \cup {BuildRD(HeaderNSC(MaxRays), MaxRays)}

\* (mutant) mode 4 is taken for an NSC header
NumRays_FourIsNSC(rd) == IF rd[1].opd >= 4 THEN rd[1].opd - 5 ELSE rd[1].error

\* PostArrayTraceMessage: the ray count decoded from record 0
NumRays(rd) == IF rd[1].opd > 4 THEN rd[1].opd - 5 ELSE rd[1].error

\* memcpy(dst, src, n records)
MemcpyRecords(dst, src, n) ==
    [i \in 1..Len(dst) |-> IF i <= n /\ i <= Len(src) THEN src[i] ELSE dst[i]]

\* The peer's computed result: every ray record changed, the header kept
Traced(poke) ==
    [i \in 1..Len(poke) |-> IF i = 1 THEN poke[i]
                            ELSE [poke[i] EXCEPT !.x = @ + 10, !.error = 0]]

\* (mutant) the caller's timeout is taken as given
EffectiveTimeout_AsGiven(timeout) == timeout

\* arrayTrace: the timeout in force
EffectiveTimeout(timeout) == IF timeout > DDE_TIMEOUT THEN timeout ELSE DDE_TIMEOUT

\* numpyGetTrace: the output arrays filled from the buffer
FillOutputs(rd, n) == [i \in 1..n |-> rd[i + 1].x]

---------------------------------------------------------------------------
\* Strings are sequences of characters; reading a char array at or past the
\* end of its text gives the terminating NUL (the arrays are zero-initialised
\* statics written once).
NUL == ""
QUOTE == "\""
SPACE == " "
COMMA == ","
LF == "\n"
CR == "\r"

CharAt(szBuffer, i) == IF i < Len(szBuffer) THEN szBuffer[i + 1] ELSE NUL

\* (mutant) the comma is no separator
IsSeparator_NoComma(c) == c \in {SPACE, LF, CR, NUL}

\* GetString: the test that ends a token
IsSeparator(c) == c \in {SPACE, LF, CR, NUL, COMMA}

\* (mutant) a double quote starts no run: only the character after it is read
QuotedRun_OneChar(szBuffer, i, t) == [i |-> i, t |-> Append(t, CharAt(szBuffer, i))]

\* GetString, "we have a double quote; keep reading until EOF or another
\* double quote": entered with i already advanced past the opening quote and
\* t = szTest[0..j-1]; gives i and szTest[0..j] when the inner loop ends
RECURSIVE QuotedRun(_, _, _)
QuotedRun(szBuffer, i, t) ==
    LET t1 == Append(t, CharAt(szBuffer, i))
    IN  IF CharAt(szBuffer, i) # QUOTE /\ CharAt(szBuffer, i) # NUL
          THEN QuotedRun(szBuffer, i + 1, t1)
          ELSE [i |-> i, t |-> t1]

\* (mutant) the token is counted before the comparison with n (1-based index)
GetStringReturns_OneBased(k, n) == k + 1 = n

\* GetString: "if (k == n)", the token that is copied to szSubString
GetStringReturns(k, n) == k = n

\* GetString, the outer loop: t = szTest[0..j-1], k tokens completed; gives
\* what szSubString holds on return and the last index at which szBuffer was
\* read ("szBuffer[i] && (k <= n)" reads szBuffer[i] before it looks at k)
RECURSIVE GetStringLoop(_, _, _, _, _)
GetStringLoop(szBuffer, n, i, k, t) ==
    IF CharAt(szBuffer, i) = NUL \/ k > n
      THEN [sub |-> IF GetStringReturns(k, n) THEN t ELSE << >>, read |-> i]
      ELSE LET c    == CharAt(szBuffer, i)
               q    == IF c = QUOTE
                         THEN QuotedRun(szBuffer, i + 1, Append(t, c))
                         ELSE [i |-> i, t |-> Append(t, c)]
               last == q.t[Len(q.t)]
           IN  IF IsSeparator(last)
                 THEN IF GetStringReturns(k, n)
                        THEN [sub  |-> SubSeq(q.t, 1, Len(q.t) - 1),
                              read |-> q.i]
                        ELSE GetStringLoop(szBuffer, n, q.i + 1, k + 1, << >>)
                 ELSE GetStringLoop(szBuffer, n, q.i + 1, k, q.t)

\* char *GetString(char *szBuffer, int n, char *szSubString)
GetString(szBuffer, n) == GetStringLoop(szBuffer, n, 0, 0, << >>).sub

\* GetString: the index of the last character of szBuffer it looked at
GetStringLastRead(szBuffer, n) == GetStringLoop(szBuffer, n, 0, 0, << >>).read

\* zclient.c, void remove_quotes(char *s)
remove_quotes(s) ==
    LET a == IF CharAt(s, 0) = QUOTE THEN Tail(s) ELSE s
    IN  IF Len(a) > 0 /\ a[Len(a)] = QUOTE THEN SubSeq(a, 1, Len(a) - 1) ELSE a

\* The application names of WM_USER_INITIATE
ZEMAX == <<"Z", "E", "M", "A", "X">>
ZEMAX1 == ZEMAX \o <<"1">>
ZEMAX2 == ZEMAX \o <<"2">>

\* The token of the command line that names the ZEMAX instance
InstanceToken == 5

\* (mutant) the names are compared on their first characters only (strncmp)
strcmp_Prefix(a, b) ==
    IF Len(a) >= Len(b) /\ SubSeq(a, 1, Len(b)) = b THEN 0 ELSE 1

\* strcmp(a, b), as far as the code uses it: 0 exactly when the strings agree
strcmp(a, b) == IF a = b THEN 0 ELSE 1

\* WM_USER_INITIATE, "identify which ZEMAX is calling us": the atoms added
\* for the application name, the one used in the broadcast and ZEMAX_INSTANCE
SelectApp(szSub) ==
    LET none == [atoms |-> << >>, aApp |-> << >>, inst |-> ZEMAX_INSTANCE]
        one  == IF strcmp(szSub, ZEMAX1) = 0
                  THEN [atoms |-> Append(none.atoms, ZEMAX1), aApp |-> ZEMAX1,
                        inst |-> 1]
                  ELSE none
        two  == IF strcmp(szSub, ZEMAX2) = 0
                  THEN [atoms |-> Append(one.atoms, ZEMAX2), aApp |-> ZEMAX2,
                        inst |-> 2]
                  ELSE one
    IN  IF strcmp(szSub, ZEMAX1) = 0 \/ strcmp(szSub, ZEMAX2) = 0
          THEN two
          ELSE [atoms |-> <<ZEMAX>>, aApp |-> ZEMAX, inst |-> 0]

---------------------------------------------------------------------------
\* Messages posted to the client window
DataMsg(from, fmt, val, h) ==
    [type |-> "DATA", from |-> from, fmt |-> fmt, val |-> val, h |-> h]

AckMsg(from) ==
    [type |-> "ACK", from |-> from, fmt |-> 0, val |-> <<>>, h |-> 0]

TermMsg(from) ==
    [type |-> "TERMINATE", from |-> from, fmt |-> 0, val |-> <<>>, h |-> 0]

\* What WndProc reads and writes, threaded through the messages of one drain
Session ==
    [GotData |-> GotData, hwndServer |-> hwndServer, RD |-> RD,
     szGlobalBuffer |-> szGlobalBuffer, frees |-> frees,
     nDispatched |-> nDispatched, goodReply |-> goodReply,
     ackFails |-> ackFails, lateData |-> lateData,
     termPosts |-> termPosts, ackPosts |-> ackPosts,
     nTermDispatched |-> nTermDispatched]

\* DdeAck.fAck is set FALSE when the WM_DDE_DATA handler starts and never changed
DdeAck_fAck == FALSE

\* (mutant) the handle is freed only when the peer set fRelease
CleanupFrees_ReleaseOnly(release) == release

\* WM_DDE_DATA, "Clean up": the condition under which the handle is freed
CleanupFrees(release) == release \/ DdeAck_fAck = FALSE

\* (mutant) the header record is not counted
CopyCount_NoHeader(numRays) == numRays

\* WM_DDE_DATA: the number of records memcpy copies into rdpGRD
CopyCount(numRays) == numRays + 1

\* WndProc, case WM_DDE_DATA. postOk: the result of posting the WM_DDE_ACK
WM_DDE_DATA(s, m, postOk) ==
    LET fmtOk     == m.fmt = CF_TEXT
        toRD      == fmtOk /\ rdpGRD # "NULL"
        toString  == fmtOk /\ rdpGRD = "NULL"
        ackFailed == fAckReq /\ ~postOk
        nfree     == IF ackFailed THEN 1
                     ELSE IF CleanupFrees(fRelease) THEN 1 ELSE 0
    IN  [s EXCEPT
           !.RD = IF toRD THEN MemcpyRecords(@, m.val, CopyCount(ngNumRays))
                             ELSE @,
           !.szGlobalBuffer = IF toString THEN m.val ELSE @,
           !.GotData = 1,
           !.ackPosts = IF fAckReq /\ postOk THEN @ + 1 ELSE @,
           !.frees[m.h] = @ + nfree,
           !.nDispatched = @ + 1,
           !.goodReply = @ \/ toRD,
           !.ackFails = IF ackFailed THEN @ + 1 ELSE @,
           !.lateData = @ \/ timedOut]

\* (mutant) every acknowledgement binds the peer
WM_DDE_ACK_Rebinds(s, m) == [s EXCEPT !.hwndServer = m.from]

\* WndProc, case WM_DDE_ACK: only the first acknowledgement binds the peer
WM_DDE_ACK(s, m) ==
    IF s.hwndServer = NULL THEN [s EXCEPT !.hwndServer = m.from] ELSE s

\* WndProc, case WM_DDE_TERMINATE
WM_DDE_TERMINATE(s, m) ==
    [s EXCEPT !.termPosts = Append(@, s.hwndServer), !.hwndServer = NULL,
              !.nTermDispatched = @ + 1]

WndProc(s, m, postOk) ==
    CASE m.type = "DATA"      -> WM_DDE_DATA(s, m, postOk)
      [] m.type = "ACK"       -> WM_DDE_ACK(s, m)
      [] m.type = "TERMINATE" -> WM_DDE_TERMINATE(s, m)

\* while (PeekMessage(...)) DispatchMessage(&msg);
RECURSIVE DispatchAll(_, _, _, _)
DispatchAll(s, q, oks, i) ==
    IF i > Len(q) THEN s
    ELSE DispatchAll(WndProc(s, q[i], oks[i]), q, oks, i + 1)

\* The WM_DDE_INITIATE broadcast: the peers in `ackers` answer, in that order,
\* with a WM_DDE_ACK sent to the window whose WM_CREATE has cleared hwndServer
Connect(ackers) ==
    DispatchAll([Session EXCEPT !.hwndServer = NULL],
                [i \in 1..Len(ackers) |-> AckMsg(ackers[i])],
                [i \in 1..Len(ackers) |-> TRUE], 1).hwndServer

\* (mutant) the missing acknowledgement goes unnoticed
NoResponse_Never(server) == FALSE

\* WM_USER_INITIATE: "If no response, terminate"
NoResponse(server) == server = NULL

\* (mutant) GotData is left as the previous request left it
Poke_NoReset(rd) ==
    [rdpGRD |-> "RD", ngNumRays |-> NumRays(rd),
     Value |-> SubSeq(rd, 1, NumRays(rd) + 1), GotData |-> GotData]

\* PostArrayTraceMessage: the ray count decoded from record 0, registered in
\* rdpGRD and ngNumRays, and the records copied into the poke buffer
Poke(rd) ==
    [rdpGRD |-> "RD", ngNumRays |-> NumRays(rd),
     Value |-> SubSeq(rd, 1, NumRays(rd) + 1), GotData |-> 0]

\* (mutant) the poke buffer is not freed when the post fails
PostFailed_NoFree == [frees |-> 0, RETVAL |-> STATUS_UNREACHABLE, ret |-> -1]

\* PostArrayTraceMessage, PostMessage(WM_DDE_POKE) failed: GlobalFree of the
\* poke buffer, RETVAL = -999, return -1 without waiting
PostFailed == [frees |-> 1, RETVAL |-> STATUS_UNREACHABLE, ret |-> -1]

\* (mutant) the status of the wait decides, not the flag
PostReturn_Always0(gotData) == 0

\* PostArrayTraceMessage after WaitForData: if (GotData) return 0; else return -1;
PostReturn(gotData) == IF gotData # 0 THEN 0 ELSE -1

\* (mutant) the iteration count is compared with a number of milliseconds
CheckDue_Milliseconds(count) == count > SLEEP_CHECK * SLEEP_MS

\* WaitForData: "check every second if timeout is reached"
CheckDue(count) == count > SLEEP_CHECK

\* (mutant) the timeout fires as soon as the elapsed time equals the limit
TimeoutReached_AtLimit(elapsed, limit) ==
    \/ U32Gt(elapsed, limit)
    \/ elapsed.hi = limit \div Half /\ elapsed.lo = limit % Half

\* WaitForData: the elapsed-time test
TimeoutReached(elapsed, limit) == U32Gt(elapsed, limit)

\* (mutant) the timeout branch sets RETVAL and forgets to return
PollOutcome_NoReturn(hit, gotData) ==
    IF gotData # 0 THEN "completed" ELSE "continue"

\* WaitForData: how one iteration ends
PollOutcome(hit, gotData) ==
    IF hit THEN "timeout" ELSE IF gotData # 0 THEN "completed" ELSE "continue"

\* DestroyWindow: the posted messages of the window are discarded
DestroyWindow(q) == << >>

Unwritten(n) == [i \in 1..n |-> -1]

\* (mutant) the connection is kept for the next call
AfterTerminate_Kept(server) == server

\* WM_USER_INITIATE, after posting WM_DDE_TERMINATE: hwndServer = NULL
AfterTerminate(server) == NULL

\* (mutant) a timeout counts as success
Succeeded_UnlessUnreachable(status) == status # STATUS_UNREACHABLE

\* the numpy wrappers: if (arrayTrace(RD, timeout) == 0)
Succeeded(status) == status = STATUS_OK

\* the numpy wrappers: the output arrays after the call
Outputs(status, rd, n, out) == IF Succeeded(status) THEN FillOutputs(rd, n) ELSE out

---------------------------------------------------------------------------
\* The process before any call: the globals as initialised at load time
\* The globals of the module at load, and the bookkeeping of a process that
\* has made no call
GlobalsAt(boot) ==
    /\ calls = 0
    /\ GotData = 0 /\ ngNumRays = 0 /\ hwndServer = NULL /\ hwndClient = NULL
    /\ rdpGRD = "NULL" /\ gPtr2RD = "NULL" /\ DdeTimeout = 0 /\ RETVAL = 0
    /\ szGlobalBuffer = <<>> /\ sleep_count = 0 /\ dwTime = U32(0, 0)
    /\ tick = boot /\ startTick = boot
    /\ window = FALSE /\ queue = <<>> /\ fAckReq = FALSE /\ fRelease = FALSE
    /\ path = "none" /\ acked = FALSE /\ entryRETVAL = 0 /\ sent = <<>>
    /\ allocs = 0 /\ pokeFrees = 0 /\ pokePosts = 0 /\ polls = 0
    /\ overPolls = 0 /\ timedOut = FALSE /\ exitRD = <<>> /\ frees = <<>>
    /\ nDispatched = 0 /\ goodReply = FALSE /\ ackFails = 0
    /\ lateData = FALSE /\ echoInTime = FALSE /\ otherData = FALSE
    /\ termPosts = <<>> /\ ackPosts = 0 /\ peerMsgs = 0 /\ rejected = 0

\* GetTickCount() reads 0 when the first call starts
GlobalsIdle == GlobalsAt(U32(0, 0))

\* No caller has handed a buffer to the module
CallerIdle ==
    /\ pc = "idle" /\ RD = <<>> /\ nrays = 0 /\ outArr = <<>>

SessionIdle == CallerIdle /\ GlobalsIdle

ConnIdle ==
    /\ nTermDispatched = 0 /\ initiates = 0 /\ ZEMAX_INSTANCE = 0
    /\ aApp = <<>> /\ appAtoms = <<>>
    /\ numbytes = U32(0, 0) /\ hPokeSize = U32(0, 0) /\ ret = 0

\* szCommandLine is a zero-initialised global that arrayTraceClient.c never writes
ParserIdle ==
    /\ szCommandLine = <<>> /\ argN = 0 /\ szSubString = <<>> /\ parsed = FALSE
    /\ lastRead = 0

ThreadsIdle ==
    /\ tpc = <<>> /\ tqueue = <<>> /\ tpolls = <<>> /\ tret = <<>>
    /\ heap = <<>> /\ tpoked = <<>> /\ copyLog = {} /\ tentry = <<>>

\* numpyOpticalPathDifference has not been called
SweepIdle ==
    /\ nField = 0 /\ nPupil = 0 /\ nWave = 0
    /\ iField = 0 /\ iPupil = 0 /\ iWave = 0 /\ iRay = 0

Init == SessionIdle /\ ConnIdle /\ ParserIdle /\ ThreadsIdle /\ SweepIdle

\* arrayTrace up to the point where it first blocks: window creation,
\* WM_USER_INITIATE (broadcast, rayTraceFunction, PostArrayTraceMessage) and,
\* on the two paths that never wait, the whole call.
arrayTrace ==
    /\ pc = "idle" /\ calls < MaxCalls
    /\ \E timeout \in Timeouts, rd \in InputBuffers, ackers \in AckSeqs :
        LET server == Connect(ackers)
            poke   == Poke(rd)
            app    == SelectApp(GetString(szCommandLine, InstanceToken))
        IN
        /\ calls' = calls + 1
        /\ RD' = rd /\ nrays' = Len(rd) - 1
        /\ initiates' = 1 /\ nTermDispatched' = 0
        /\ aApp' = app.aApp /\ ZEMAX_INSTANCE' = app.inst
        /\ appAtoms' = app.atoms
        /\ UNCHANGED <<parser, threads, sweep>>
        /\ DdeTimeout' = EffectiveTimeout(timeout)
        /\ entryRETVAL' = RETVAL /\ acked' = (ackers # <<>>)
        /\ polls' = 0 /\ overPolls' = 0 /\ timedOut' = FALSE /\ exitRD' = <<>>
        /\ frees' = <<>> /\ nDispatched' = 0 /\ goodReply' = FALSE
        /\ ackFails' = 0 /\ lateData' = FALSE /\ echoInTime' = FALSE
        /\ otherData' = FALSE /\ ackPosts' = 0
        /\ peerMsgs' = 0 /\ rejected' = 0 /\ queue' = <<>>
        /\ tick' = startTick
        /\ UNCHANGED startTick
        /\ \/ \* no peer answered the broadcast: DestroyWindow, RETVAL = -999
              /\ NoResponse(server)
              /\ hwndServer' = server /\ RETVAL' = STATUS_UNREACHABLE
              /\ gPtr2RD' = "RD"
              /\ outArr' = Outputs(STATUS_UNREACHABLE, rd, Len(rd) - 1,
                                   Unwritten(Len(rd) - 1))
              /\ UNCHANGED <<numbytes, hPokeSize, ret>>
              /\ window' = FALSE /\ pc' = "idle" /\ path' = "noack"
              /\ sent' = <<>> /\ allocs' = 0 /\ pokeFrees' = 0 /\ pokePosts' = 0
              /\ termPosts' = <<>>
              /\ fAckReq' = FALSE /\ fRelease' = FALSE
              /\ UNCHANGED <<GotData, ngNumRays, hwndClient, rdpGRD,
                             szGlobalBuffer, sleep_count, dwTime>>
           \/ \* connected, the poke could not be posted: the buffer is freed,
              \* RETVAL = -999, then WM_DDE_TERMINATE and DestroyWindow
              /\ ~NoResponse(server)
              /\ hwndClient' = calls + 1
              /\ rdpGRD' = poke.rdpGRD /\ ngNumRays' = poke.ngNumRays
              /\ GotData' = poke.GotData /\ szGlobalBuffer' = <<>>
              /\ RETVAL' = PostFailed.RETVAL
              /\ gPtr2RD' = "NULL"
              /\ outArr' = Outputs(PostFailed.RETVAL, rd, Len(rd) - 1,
                                   Unwritten(Len(rd) - 1))
              /\ numbytes' = NumBytes(poke.ngNumRays)
              /\ hPokeSize' = AllocSize(NumBytes(poke.ngNumRays))
              /\ termPosts' = <<server>> /\ hwndServer' = AfterTerminate(server)
              /\ ret' = PostFailed.ret
              /\ window' = FALSE /\ pc' = "idle" /\ path' = "pokefail"
              /\ sent' = <<>> /\ allocs' = 1 /\ pokeFrees' = PostFailed.frees
              /\ pokePosts' = 0
              /\ fAckReq' = FALSE /\ fRelease' = FALSE
              /\ UNCHANGED <<sleep_count, dwTime>>
           \/ \* connected, the poke is on its way: WaitForData starts
              /\ ~NoResponse(server)
              /\ fAckReq' = FALSE /\ fRelease' = FALSE
              /\ hwndServer' = server /\ hwndClient' = calls + 1
              /\ rdpGRD' = poke.rdpGRD /\ ngNumRays' = poke.ngNumRays
              /\ GotData' = poke.GotData /\ szGlobalBuffer' = <<>>
              /\ gPtr2RD' = "RD"
              /\ outArr' = Unwritten(Len(rd) - 1)
              /\ numbytes' = NumBytes(poke.ngNumRays)
              /\ hPokeSize' = AllocSize(NumBytes(poke.ngNumRays))
              /\ dwTime' = startTick /\ sleep_count' = 0
              /\ window' = TRUE /\ pc' = "wait" /\ path' = "none"
              /\ sent' = poke.Value
              /\ allocs' = 1 /\ pokeFrees' = 0 /\ pokePosts' = 1
              /\ termPosts' = <<>>
              /\ UNCHANGED <<RETVAL, ret>>

\* One iteration of the WaitForData loop: drain, Sleep(100), timeout check
WaitForDataPoll ==
    /\ pc = "wait" /\ polls < MaxPolls
    /\ \E oks \in [1..Len(queue) -> BOOLEAN] :
        LET s       == DispatchAll(Session, queue, oks, 1)
            now     == U32Add(tick, SLEEP_MS)
            sc      == sleep_count + 1
            elapsed == U32Sub(now, dwTime)
            hit     == CheckDue(sc) /\ TimeoutReached(elapsed, DdeTimeout)
            outcome == PollOutcome(hit, s.GotData)
        IN
        /\ \A i \in 1..Len(queue) :
              (queue[i].type # "DATA" \/ ~fAckReq) => oks[i]
        /\ GotData' = s.GotData /\ hwndServer' = s.hwndServer /\ RD' = s.RD
        /\ szGlobalBuffer' = s.szGlobalBuffer /\ frees' = s.frees
        /\ nDispatched' = s.nDispatched /\ goodReply' = s.goodReply
        /\ ackFails' = s.ackFails /\ lateData' = s.lateData
        /\ termPosts' = s.termPosts /\ ackPosts' = s.ackPosts
        /\ nTermDispatched' = s.nTermDispatched
        /\ UNCHANGED <<initiates, ZEMAX_INSTANCE, aApp, appAtoms, numbytes,
                       hPokeSize, ret, parser, threads, sweep>>
        /\ queue' = <<>>
        /\ tick' = now
        /\ sleep_count' = IF CheckDue(sc) /\ outcome # "timeout" THEN 0 ELSE sc
        /\ RETVAL' = IF hit THEN STATUS_TIMEOUT ELSE RETVAL
        /\ timedOut' = (timedOut \/ hit)
        /\ polls' = polls + 1
        /\ overPolls' = IF (polls + 1) * SLEEP_MS > DdeTimeout
                          THEN overPolls + 1 ELSE overPolls
        /\ pc' = IF outcome = "continue" THEN "wait" ELSE "waitdone"
        /\ path' = IF outcome = "continue" THEN path ELSE outcome
        /\ exitRD' = IF outcome = "continue" THEN exitRD ELSE s.RD
        /\ UNCHANGED <<calls, ngNumRays, hwndClient, rdpGRD, gPtr2RD, DdeTimeout,
                       dwTime, startTick, window, fAckReq, fRelease, nrays,
                       outArr, acked, entryRETVAL, sent, allocs, pokeFrees,
                       pokePosts, echoInTime, otherData, peerMsgs, rejected>>

\* After WaitForData: the rest of PostArrayTraceMessage, rayTraceFunction,
\* the end of WM_USER_INITIATE, the message loop of arrayTrace, its return,
\* and the numpy wrapper's use of the status.
Finish ==
    /\ pc = "waitdone"
    /\ rdpGRD' = "NULL"
    /\ gPtr2RD' = "NULL"
    /\ termPosts' = Append(termPosts, hwndServer)
    /\ hwndServer' = AfterTerminate(hwndServer)
    /\ window' = FALSE
    /\ queue' = DestroyWindow(queue)
    /\ outArr' = Outputs(RETVAL, RD, nrays, outArr)
    /\ ret' = PostReturn(GotData)
    /\ UNCHANGED <<nTermDispatched, initiates, ZEMAX_INSTANCE, aApp, appAtoms,
                   numbytes, hPokeSize, parser, threads, sweep>>
    /\ sleep_count' = 0 /\ dwTime' = U32(0, 0)
    /\ pc' = "idle"
    /\ UNCHANGED <<calls, GotData, ngNumRays, hwndClient, DdeTimeout, RETVAL,
                   szGlobalBuffer, tick, startTick, fAckReq, fRelease, RD,
                   nrays, path, acked, entryRETVAL, sent, allocs, pokeFrees,
                   pokePosts, polls, overPolls, timedOut, exitRD, frees,
                   nDispatched, goodReply, ackFails, lateData, echoInTime,
                   otherData, ackPosts, peerMsgs, rejected>>

\* The peer's PostMessage to the client window: it fails once the window is
\* gone, and the peer does not try again after a failed post. While the
\* client waits, the peer posts during the Sleep of the iterations PostPolls.
PostToClient(m) ==
    /\ peerMsgs < MaxPeerMsgs
    /\ pc = "wait" => polls \in PostPolls
    /\ ~window => rejected = 0
    /\ peerMsgs' = peerMsgs + 1
    /\ IF window
         THEN /\ queue' = Append(queue, m)
              /\ frees' = IF m.type = "DATA" THEN Append(frees, 0) ELSE frees
              /\ UNCHANGED rejected
         ELSE /\ rejected' = rejected + 1
              /\ UNCHANGED <<queue, frees>>
    /\ UNCHANGED <<pc, calls, prog, tick, startTick, window,
                   user, path, acked, entryRETVAL, sent, allocs, pokeFrees,
                   pokePosts, polls, overPolls, timedOut, exitRD, nDispatched,
                   goodReply, ackFails, lateData, termPosts, ackPosts,
                   conn, parser, threads, sweep>>

\* The peer answers the poke: the pushed buffer echoed or traced under
\* CF_TEXT, or a payload under another format tag. The fAckReq and fRelease
\* flags of its DDEDATA are those of the first reply it got through.
PeerPostData ==
    /\ pokePosts > 0
    /\ \E r \in {<<CF_TEXT, sent>>, <<CF_TEXT, Traced(sent)>>, <<CF_OTHER, sent>>},
          ackReq \in BOOLEAN, rel \in BOOLEAN :
        LET isEcho == r[1] = CF_TEXT /\ r[2] = sent
        IN
        /\ (~window \/ Len(frees) > 0) => (ackReq = fAckReq /\ rel = fRelease)
        /\ fAckReq' = ackReq /\ fRelease' = rel
        /\ PostToClient(DataMsg(Zemax, r[1], r[2], Len(frees) + 1))
        /\ echoInTime' = (echoInTime \/ (isEcho /\ pc = "wait"
                                          /\ polls * SLEEP_MS <= DdeTimeout))
        /\ otherData' = (otherData \/ ~isEcho)

\* A peer posts an acknowledgement outside the broadcast, while the client
\* still dispatches messages
PeerPostAck ==
    /\ pc = "wait"
    /\ \E from \in Peers : PostToClient(AckMsg(from))
    /\ UNCHANGED <<echoInTime, otherData, fAckReq, fRelease>>

\* The peer ends the conversation, while the client still dispatches messages
PeerPostTerminate ==
    /\ pc = "wait"
    /\ PostToClient(TermMsg(Zemax))
    /\ UNCHANGED <<echoInTime, otherData, fAckReq, fRelease>>

Next ==
    \/ arrayTrace
    \/ WaitForDataPoll
    \/ Finish
    \/ PeerPostData
    \/ PeerPostAck
    \/ PeerPostTerminate

Spec == Init /\ [][Next]_vars

\* The thread that called arrayTrace keeps running: Sleep returns and the
\* code after WaitForData is executed. Nothing is assumed of the peer, which
\* may post anything or nothing. Calls are counted up to FairCalls.
FairNext ==
    \/ calls < FairCalls /\ arrayTrace
    \/ WaitForDataPoll
    \/ Finish
    \/ PeerPostData
    \/ PeerPostAck
    \/ PeerPostTerminate

FairSpec ==
    Init /\ [][FairNext]_vars /\ WF_vars(WaitForDataPoll) /\ WF_vars(Finish)

\* The same calls made shortly before GetTickCount() wraps to 0: WrapLeads
\* are the milliseconds left on the counter when a call starts, so that the
\* wrap falls on the first Sleep, between the 10th and the 11th, on the
\* 11th, and between the 21st and the 22nd.
WrapLeads == {1, 1050, 1100, 2150}

TickBeforeWrap(ms) == U32(Half - 1, Half - ms)

WrapInit ==
    /\ \E ms \in WrapLeads : GlobalsAt(TickBeforeWrap(ms))
    /\ CallerIdle /\ ConnIdle /\ ParserIdle /\ ThreadsIdle /\ SweepIdle

WrapSpec == WrapInit /\ [][FairNext]_vars

---------------------------------------------------------------------------
\* Two threads of one process calling arrayTrace. The globals of
\* arrayTraceClient.c are shared and no lock guards them; each thread has its
\* own window, message queue and locals. A step is a stretch of one thread's
\* code between two points where the other thread may run.
Threads == {1, 2}

\* the address of the buffer each thread passes as pRAD
pRAD(t) == IF t = 1 THEN "RD1" ELSE "RD2"

\* the buffer behind each address: thread t traces t rays of its own
CallerBuffer(t) ==
    [i \in 1..(t + 1) |->
        IF i = 1 THEN HeaderSeq(t) ELSE [Ray(i - 1) EXCEPT !.x = 100 * t + i]]

NoPoke == [val |-> << >>, n |-> 0, replied |-> FALSE]

NoFault == \A u \in Threads : tpc[u] # "fault"

ThreadInit ==
    /\ SessionIdle /\ ConnIdle /\ ParserIdle /\ SweepIdle
    /\ tpc = [t \in Threads |-> "idle"]
    /\ tqueue = [t \in Threads |-> << >>]
    /\ tpolls = [t \in Threads |-> 0]
    /\ tret = [t \in Threads |-> STATUS_OK]
    /\ heap = [b \in {pRAD(t) : t \in Threads} |->
                  CallerBuffer(CHOOSE t \in Threads : pRAD(t) = b)]
    /\ tpoked = [t \in Threads |-> NoPoke]
    /\ copyLog = {}
    /\ tentry = [t \in Threads |-> "none"]

\* what the thread actions leave alone
sessionFrame ==
    <<pc, calls, hwndClient, szGlobalBuffer, sleep_count, dwTime, env, user,
      path, acked, entryRETVAL, sent, allocs, pokeFrees, pokePosts, polls,
      overPolls, timedOut, exitRD, echoInTime, otherData, termPosts, peerMsgs,
      rejected, conn, parser, sweep>>

threadFrame == <<sessionFrame, tentry>>

replyFrame == <<nDispatched, goodReply, ackFails, lateData, ackPosts>>

\* arrayTrace, lines 79-84: gPtr2RD = pRAD and the timeout in force
ThreadEnter(t) ==
    /\ NoFault /\ tpc[t] = "idle"
    /\ \E timeout \in Timeouts : DdeTimeout' = EffectiveTimeout(timeout)
    /\ gPtr2RD' = pRAD(t)
    /\ tpc' = [tpc EXCEPT ![t] = "entered"]
    /\ tentry' = [tentry EXCEPT ![t] = tpc[CHOOSE u \in Threads : u # t]]
    /\ UNCHANGED <<GotData, ngNumRays, hwndServer, rdpGRD, RETVAL, frees,
                   tqueue, tpolls, tret, heap, tpoked, copyLog,
                   sessionFrame, replyFrame>>

\* CreateWindow: WM_CREATE clears hwndServer
ThreadCreateWindow(t) ==
    /\ NoFault /\ tpc[t] = "entered"
    /\ hwndServer' = NULL
    /\ tqueue' = [tqueue EXCEPT ![t] = << >>]
    /\ tpc' = [tpc EXCEPT ![t] = "created"]
    /\ UNCHANGED <<GotData, ngNumRays, rdpGRD, gPtr2RD, DdeTimeout, RETVAL,
                   frees, tpolls, tret, heap, tpoked, copyLog,
                   threadFrame, replyFrame>>

\* WM_USER_INITIATE up to the test of hwndServer: the broadcast and the
\* acknowledgements it is answered with
ThreadInitiate(t) ==
    /\ NoFault /\ tpc[t] = "created"
    /\ \E ackers \in AckSeqs :
        LET server == DispatchAll(Session,
                                  [i \in 1..Len(ackers) |-> AckMsg(ackers[i])],
                                  [i \in 1..Len(ackers) |-> TRUE], 1).hwndServer
        IN  /\ hwndServer' = server
            /\ IF NoResponse(server)
                 THEN /\ RETVAL' = STATUS_UNREACHABLE
                      /\ tqueue' = [tqueue EXCEPT ![t] = DestroyWindow(@)]
                      /\ tpc' = [tpc EXCEPT ![t] = "quit"]
                 ELSE /\ tpc' = [tpc EXCEPT ![t] = "connected"]
                      /\ UNCHANGED <<RETVAL, tqueue>>
    /\ UNCHANGED <<GotData, ngNumRays, rdpGRD, gPtr2RD, DdeTimeout, frees,
                   tpolls, tret, heap, tpoked, copyLog,
                   threadFrame, replyFrame>>

\* rayTraceFunction and PostArrayTraceMessage up to the call of WaitForData:
\* the buffer is the one gPtr2RD points to now
ThreadSend(t) ==
    /\ NoFault /\ tpc[t] = "connected"
    /\ IF gPtr2RD = "NULL"
         THEN \* RD[0] is read through a null pointer
              /\ tpc' = [tpc EXCEPT ![t] = "fault"]
              /\ UNCHANGED <<GotData, ngNumRays, rdpGRD, RETVAL, tpoked, tpolls>>
         ELSE \E postOk \in BOOLEAN :
              LET poke == Poke(heap[gPtr2RD])
              IN  /\ rdpGRD' = gPtr2RD
                  /\ ngNumRays' = poke.ngNumRays
                  /\ GotData' = poke.GotData
                  /\ IF postOk
                       THEN /\ tpoked' = [tpoked EXCEPT ![t] =
                                   [val |-> IF hwndServer = NULL THEN << >>
                                            ELSE poke.Value,
                                    n |-> poke.ngNumRays, replied |-> FALSE]]
                            /\ tpolls' = [tpolls EXCEPT ![t] = 0]
                            /\ tpc' = [tpc EXCEPT ![t] = "wait"]
                            /\ UNCHANGED RETVAL
                       ELSE /\ RETVAL' = PostFailed.RETVAL
                            /\ tpc' = [tpc EXCEPT ![t] = "sendfail"]
                            /\ UNCHANGED <<tpoked, tpolls>>
    /\ UNCHANGED <<hwndServer, gPtr2RD, DdeTimeout, frees, tqueue, tret, heap,
                   copyLog, threadFrame, replyFrame>>

\* WndProc run by a thread on the messages of its window: WM_DDE_DATA writes
\* through the global rdpGRD with the global ngNumRays
ThreadWndProc(st, e) ==
    LET target == IF rdpGRD = "NULL" THEN << >> ELSE st.heap[rdpGRD]
        s1     == WM_DDE_DATA([st.s EXCEPT !.RD = target], e.m, TRUE)
        copied == e.m.fmt = CF_TEXT /\ rdpGRD # "NULL"
    IN  [s |-> s1,
         heap |-> IF copied THEN [st.heap EXCEPT ![rdpGRD] = s1.RD] ELSE st.heap,
         copyLog |-> IF copied
                       THEN st.copyLog \cup {<<rdpGRD, e.req, ngNumRays>>}
                       ELSE st.copyLog]

RECURSIVE ThreadDrain(_, _, _)
ThreadDrain(st, q, i) ==
    IF i > Len(q) THEN st ELSE ThreadDrain(ThreadWndProc(st, q[i]), q, i + 1)

\* WaitForData in thread t: the loop test and, if GotData is still 0, one
\* iteration (drain the thread's window, Sleep(100), timeout check)
ThreadPoll(t) ==
    /\ NoFault /\ tpc[t] = "wait"
    /\ IF GotData # 0
         THEN /\ tpc' = [tpc EXCEPT ![t] = "waitdone"]
              /\ UNCHANGED <<GotData, RETVAL, frees, tqueue, tpolls, heap,
                             copyLog, replyFrame>>
         ELSE LET st  == ThreadDrain([s |-> Session, heap |-> heap,
                                      copyLog |-> copyLog], tqueue[t], 1)
                  n   == tpolls[t] + 1
                  hit == /\ n % (SLEEP_CHECK + 1) = 0
                         /\ n * SLEEP_MS > DdeTimeout
              IN  /\ GotData' = st.s.GotData /\ frees' = st.s.frees
                  /\ nDispatched' = st.s.nDispatched
                  /\ goodReply' = st.s.goodReply /\ ackFails' = st.s.ackFails
                  /\ lateData' = st.s.lateData /\ ackPosts' = st.s.ackPosts
                  /\ heap' = st.heap /\ copyLog' = st.copyLog
                  /\ tqueue' = [tqueue EXCEPT ![t] = << >>]
                  /\ tpolls' = [tpolls EXCEPT ![t] = n]
                  /\ RETVAL' = IF hit THEN STATUS_TIMEOUT ELSE RETVAL
                  /\ tpc' = [tpc EXCEPT ![t] = IF hit THEN "waitdone" ELSE "wait"]
    /\ UNCHANGED <<ngNumRays, hwndServer, rdpGRD, gPtr2RD, DdeTimeout, tret,
                   tpoked, threadFrame>>

\* The rest of PostArrayTraceMessage (after WaitForData only), of
\* rayTraceFunction and of WM_USER_INITIATE
ThreadFinish(t) ==
    /\ NoFault /\ tpc[t] \in {"waitdone", "sendfail"}
    /\ rdpGRD' = IF tpc[t] = "waitdone" THEN "NULL" ELSE rdpGRD
    /\ gPtr2RD' = "NULL"
    /\ hwndServer' = AfterTerminate(hwndServer)
    /\ tqueue' = [tqueue EXCEPT ![t] = DestroyWindow(@)]
    /\ tpc' = [tpc EXCEPT ![t] = "quit"]
    /\ UNCHANGED <<GotData, ngNumRays, DdeTimeout, RETVAL, frees, tpolls, tret,
                   heap, tpoked, copyLog, threadFrame, replyFrame>>

\* arrayTrace: the message loop has ended, return RETVAL
ThreadReturn(t) ==
    /\ NoFault /\ tpc[t] = "quit"
    /\ tret' = [tret EXCEPT ![t] = RETVAL]
    /\ tpc' = [tpc EXCEPT ![t] = "returned"]
    /\ UNCHANGED <<GotData, ngNumRays, hwndServer, rdpGRD, gPtr2RD, DdeTimeout,
                   RETVAL, frees, tqueue, tpolls, heap, tpoked, copyLog,
                   threadFrame, replyFrame>>

\* The peer answers the poke of thread t with the traced rays, posted to the
\* window named in that poke, while the thread polls
ThreadPeerReply(t) ==
    /\ NoFault /\ tpc[t] = "wait"
    /\ tpoked[t].val # << >> /\ ~tpoked[t].replied
    /\ tpolls[t] \in PostPolls
    /\ tqueue' = [tqueue EXCEPT ![t] =
                     Append(@, [m |-> DataMsg(Zemax, CF_TEXT,
                                              Traced(tpoked[t].val),
                                              Len(frees) + 1),
                                req |-> t])]
    /\ frees' = Append(frees, 0)
    /\ tpoked' = [tpoked EXCEPT ![t].replied = TRUE]
    /\ UNCHANGED <<GotData, ngNumRays, hwndServer, rdpGRD, gPtr2RD, DdeTimeout,
                   RETVAL, tpc, tpolls, tret, heap, copyLog,
                   threadFrame, replyFrame>>

ThreadNext ==
    \E t \in Threads :
        \/ ThreadEnter(t)
        \/ ThreadCreateWindow(t)
        \/ ThreadInitiate(t)
        \/ ThreadSend(t)
        \/ ThreadPoll(t)
        \/ ThreadFinish(t)
        \/ ThreadReturn(t)
        \/ ThreadPeerReply(t)

ThreadSpec == ThreadInit /\ [][ThreadNext]_vars

---------------------------------------------------------------------------
\* A call of arrayTrace has returned and none is in progress
Returned == pc = "idle" /\ calls > 0

\* C1: whatever earlier calls returned, a call in which the peer acknowledges
\* the broadcast and answers the poke in time with an unchanged copy of the
\* pushed buffer returns 0, leaves the caller's buffer equal to what was sent
\* and fills the wrapper's output arrays from it.
C1_EchoRoundTripSucceeds ==
    (Returned /\ echoInTime /\ ~otherData) =>
        /\ RETVAL = STATUS_OK
        /\ RD = sent
        /\ outArr = FillOutputs(sent, nrays)

\* C2: a call in which no peer acknowledges the broadcast returns -999 and,
\* during it, no buffer is allocated, no poke is posted and the wait loop is
\* never entered.
C2_NoAckNoResources ==
    (Returned /\ ~acked) =>
        /\ RETVAL = STATUS_UNREACHABLE
        /\ allocs = 0 /\ pokeFrees = 0 /\ pokePosts = 0
        /\ polls = 0
        /\ frees = <<>>

C2_Witness == Returned /\ ~acked /\ path = "noack" /\ calls > 1

\* C3: a call in which the peer acknowledges, the poke is posted and no
\* WM_DDE_DATA ever reaches the window returns -998, only after the elapsed
\* time has exceeded DdeTimeout, at most 11 polls of 100 ms after it did, and
\* with GotData = 0.
C3_TimeoutWithoutReply ==
    (Returned /\ pokePosts > 0 /\ frees = <<>>) =>
        /\ RETVAL = STATUS_TIMEOUT
        /\ polls * SLEEP_MS > DdeTimeout
        /\ overPolls <= SLEEP_CHECK + 1
        /\ polls * SLEEP_MS - DdeTimeout <= (SLEEP_CHECK + 1) * SLEEP_MS
        /\ GotData = 0

C3_Witness ==
    /\ Returned /\ pokePosts > 0 /\ frees = <<>>
    /\ DdeTimeout > DDE_TIMEOUT
    /\ overPolls = SLEEP_CHECK + 1

\* C4: when the reply callback ran during the wait and copied the reply into
\* the caller's buffer, the status returned is 0 and never -998 (stated for
\* calls entered with RETVAL = 0).
C4_ReplyDispatchedMeansCompleted ==
    (Returned /\ goodReply /\ GotData = 1 /\ entryRETVAL = STATUS_OK) =>
        RETVAL = STATUS_OK

\* C5: once WaitForData has exited with a timeout, no WM_DDE_DATA is
\* dispatched any more, and a reply the peer delivers later changes neither
\* the caller's buffer nor the status.
C5_LateReplyDiscarded ==
    /\ ~lateData
    /\ timedOut => /\ pc # "wait"
                   /\ RD = exitRD
                   /\ RETVAL = STATUS_TIMEOUT
                   /\ nDispatched = 0 => GotData = 0

C5_Witness ==
    /\ Returned /\ timedOut
    /\ Len(frees) > 0 /\ rejected > 0

\* C6: when the poke cannot be posted, the buffer just allocated is freed
\* exactly once, GotData stays 0, the wait loop is never entered and the
\* status is -999.
C6_PokeFailureFreesOnce ==
    (Returned /\ acked /\ pokePosts = 0) =>
        /\ allocs = 1 /\ pokeFrees = 1
        /\ GotData = 0
        /\ polls = 0
        /\ RETVAL = STATUS_UNREACHABLE

C6_Witness == Returned /\ acked /\ pokePosts = 0 /\ entryRETVAL = STATUS_OK

\* C7: the status returned is 0 only when a reply with the CF_TEXT format
\* tag was received and copied into the caller's buffer.
C7_StatusZeroOnlyForGoodReply ==
    (Returned /\ RETVAL = STATUS_OK) => goodReply

\* C8: when every WM_DDE_DATA dispatched so far had its acknowledgement
\* refused by PostMessage, GotData is still 0 and the call does not return 0.
C8_AckFailureNotSuccess ==
    (nDispatched > 0 /\ ackFails = nDispatched) =>
        /\ GotData = 0
        /\ Returned => RETVAL # STATUS_OK

\* C9: every data handle dispatched to the WM_DDE_DATA callback has been
\* freed exactly once, whatever the format, fAckReq, fRelease and the result
\* of posting the acknowledgement.
C9_DataHandleFreedOnce ==
    \A h \in 1..nDispatched : frees[h] = 1

C9_Witness ==
    /\ nDispatched > 1 /\ ackFails = 1 /\ ~fRelease /\ ~goodReply

\* C10: when a call returns, the poke buffer has been handed to the peer or
\* freed by the client, not both, and every reply handle posted to the
\* client window has been freed exactly once.
C10_EveryHandleReleasedOnce ==
    Returned =>
        /\ allocs = pokePosts + pokeFrees
        /\ \A h \in DOMAIN frees : frees[h] = 1

---------------------------------------------------------------------------
\* PostArrayTraceMessage on its own, up to GlobalAlloc: the caller has built
\* a header for nrays rays; the function decodes the count and sizes the
\* poke buffer. Only record 0 of the caller's buffer is read on the way.
HeaderInit ==
    /\ GlobalsIdle /\ ConnIdle /\ ParserIdle /\ ThreadsIdle /\ SweepIdle
    /\ pc = "header" /\ outArr = <<>>
    /\ \E n \in Counts : \E hdr \in HeadersOf(n) : nrays = n /\ RD = <<hdr>>

PostArrayTraceMessage_Size ==
    /\ pc = "header"
    /\ rdpGRD' = "RD" /\ ngNumRays' = NumRays(RD)
    /\ numbytes' = NumBytes(NumRays(RD))
    /\ hPokeSize' = AllocSize(NumBytes(NumRays(RD)))
    /\ allocs' = allocs + 1
    /\ pc' = "sized"
    /\ UNCHANGED <<calls, GotData, hwndServer, hwndClient, gPtr2RD, DdeTimeout,
                   RETVAL, szGlobalBuffer, sleep_count, dwTime, env, user,
                   path, acked, entryRETVAL, sent, pokeFrees, pokePosts, polls,
                   overPolls, timedOut, exitRD, frees, nDispatched, goodReply,
                   ackFails, lateData, echoInTime, otherData, termPosts,
                   ackPosts, peerMsgs, rejected, nTermDispatched, initiates,
                   ZEMAX_INSTANCE, aApp, appAtoms, ret, parser, threads, sweep>>

HeaderSpec == HeaderInit /\ [][PostArrayTraceMessage_Size]_vars

\* the signed value of a 32-bit long is not negative
NonNegative(a) == a.hi < Half \div 2

\* C13: a header that encodes k rays, through opd = k + 5 or through a mode
\* 0..4 in opd and error = k, is decoded to k by PostArrayTraceMessage,
\* which follows the dual rule on record 0.
C13_DualRuleDecodes ==
    pc = "sized" =>
        /\ ngNumRays = nrays
        /\ ngNumRays = (IF RD[1].opd > 4 THEN RD[1].opd - 5 ELSE RD[1].error)

C13_Witness ==
    pc = "sized" /\ nrays = 1000 /\ RD[1].opd = 1005 /\ ngNumRays = 1000

\* C14: the payload size held in numbytes is (n + 1) * sizeof(DDERAYDATA)
\* for the decoded ray count n, and the size passed to GlobalAlloc is that
\* plus sizeof(DDEPOKE).
C14_PayloadSize ==
    pc = "sized" =>
        /\ NonNegative(numbytes)
        /\ numbytes = Product(ngNumRays + 1, SizeofDDERAYDATA)
        /\ NonNegative(hPokeSize)
        /\ hPokeSize = U32Add(Product(ngNumRays + 1, SizeofDDERAYDATA),
                              SizeofDDEPOKE)

---------------------------------------------------------------------------
\* The command line and its tokens. WinMain of zclient.c copies the command
\* line it was started with into szCommandLine; GetString is then asked for
\* a token, callers strip its quotes with remove_quotes, and WM_USER_INITIATE
\* reads token 5 to choose the application name of the broadcast.
Alphabet == {SPACE, COMMA, LF, CR, "a", "b"}

Strings(n) == UNION {[1..m -> Alphabet] : m \in 0..n}

\* 1,"C:\a b, c.txt",ZEMAX2 and the text between its quotes
PathContent ==
    <<"C", ":", "\\", "a", SPACE, "b", COMMA, SPACE, "c", ".", "t", "x", "t">>

QuotedLine(c) == <<"1", COMMA, QUOTE>> \o c \o <<QUOTE, COMMA>> \o ZEMAX2

QuotedContents == Strings(MaxLen) \cup {PathContent}

\* command lines with five leading fields and a sixth
InstanceNames ==
    {<< >>, ZEMAX, ZEMAX1, ZEMAX2, ZEMAX \o <<"3">>, ZEMAX1 \o <<"0">>, <<"Z">>}

InstanceLine(name) ==
    <<"0", COMMA, "o", SPACE, "2", COMMA, "3", COMMA, "4", COMMA>> \o name

\* short command lines with double quotes in any position
QuoteAlphabet == {QUOTE, COMMA, "a"}

QuotedStrings == UNION {[1..m -> QuoteAlphabet] : m \in 0..(MaxLen + 2)}

CommandLines ==
    Strings(MaxLen) \cup QuotedStrings
      \cup {QuotedLine(c) : c \in QuotedContents}
      \cup {InstanceLine(name) : name \in InstanceNames}
      \cup {InstanceLine(name) \o <<COMMA, "7">> : name \in InstanceNames}

ParserInit ==
    /\ GlobalsIdle /\ ConnIdle /\ ThreadsIdle /\ SweepIdle
    /\ pc = "cmdline" /\ RD = <<>> /\ nrays = 0 /\ outArr = <<>>
    /\ szCommandLine \in CommandLines /\ argN \in 0..MaxIndex
    /\ szSubString = << >> /\ parsed = FALSE /\ lastRead = 0

parserFrame == <<calls, prog, env, user, hist, threads, sweep, nTermDispatched,
                 numbytes, hPokeSize, ret, szCommandLine, argN>>

\* GetString(szCommandLine, argN, szSubString)
GetStringCall ==
    /\ pc = "cmdline"
    /\ szSubString' = GetString(szCommandLine, argN)
    /\ lastRead' = GetStringLastRead(szCommandLine, argN)
    /\ parsed' = TRUE /\ pc' = "token"
    /\ UNCHANGED <<parserFrame, initiates, ZEMAX_INSTANCE, aApp, appAtoms>>

\* remove_quotes(szSubString), as the callers of GetString do for a path
RemoveQuotesCall ==
    /\ pc = "token"
    /\ szSubString' = remove_quotes(szSubString)
    /\ pc' = "unquoted"
    /\ UNCHANGED <<parserFrame, parsed, lastRead, initiates, ZEMAX_INSTANCE,
                   aApp, appAtoms>>

\* WM_USER_INITIATE up to the broadcast: the application atom is chosen
IdentifyZemax ==
    /\ pc = "cmdline"
    /\ LET app == SelectApp(GetString(szCommandLine, InstanceToken))
       IN  /\ aApp' = app.aApp /\ ZEMAX_INSTANCE' = app.inst
           /\ appAtoms' = app.atoms
    /\ lastRead' = GetStringLastRead(szCommandLine, InstanceToken)
    /\ initiates' = initiates + 1
    /\ pc' = "initiated"
    /\ UNCHANGED <<parserFrame, szSubString, parsed>>

ParserNext == GetStringCall \/ RemoveQuotesCall \/ IdentifyZemax

ParserSpec == ParserInit /\ [][ParserNext]_vars

\* The fields of a command line without quotes, by position: every space,
\* comma or line break ends one field and starts the next
FieldBreaks == {SPACE, COMMA, LF, CR}

QuoteFree(szBuffer) == \A i \in 1..Len(szBuffer) : szBuffer[i] # QUOTE

BreaksBefore(szBuffer, i) ==
    Cardinality({j \in 1..(i - 1) : szBuffer[j] \in FieldBreaks})

FieldCount(szBuffer) == 1 + BreaksBefore(szBuffer, Len(szBuffer) + 1)

Field(szBuffer, n) ==
    LET at == {i \in 1..Len(szBuffer) :
                  szBuffer[i] \notin FieldBreaks /\ BreaksBefore(szBuffer, i) = n}
    IN  [k \in 1..Cardinality(at) |->
            szBuffer[(CHOOSE i \in at : \A j \in at : i <= j) + k - 1]]

\* C15 (as stated): the token GetString returns for a quoted field is the
\* text between the quotes, C:\a b, c.txt for token 1 of the command line
\* 1,"C:\a b, c.txt",ZEMAX2, and ZEMAX2 for its token 2.
C15_QuotedTokenIsContent ==
    \A c \in QuotedContents :
        (pc = "token" /\ szCommandLine = QuotedLine(c)) =>
            /\ argN = 1 => szSubString = c
            /\ argN = 2 => szSubString = ZEMAX2

\* C15 (amended): the token GetString returns for a quoted field is the
\* field with both of its quotes, embedded separators preserved, which
\* remove_quotes reduces to the text between the quotes; token 1 of
\* 1,"C:\a b, c.txt",ZEMAX2 is "C:\a b, c.txt" and becomes C:\a b, c.txt,
\* and token 2 is ZEMAX2.
C15_QuotedTokenKeepsQuotes ==
    \A c \in QuotedContents :
        szCommandLine = QuotedLine(c) =>
            /\ (pc = "token" /\ argN = 1) =>
                   szSubString = <<QUOTE>> \o c \o <<QUOTE>>
            /\ (pc = "unquoted" /\ argN = 1) => szSubString = c
            /\ (pc \in {"token", "unquoted"} /\ argN = 2) => szSubString = ZEMAX2

C15_Witness ==
    /\ pc = "unquoted" /\ szCommandLine = QuotedLine(PathContent) /\ argN = 1
    /\ szSubString = PathContent

\* The fields of a command line with quotes, by position: a double quote
\* opens a run that the next double quote (or the end) closes; a space,
\* comma or line break outside the runs ends a field; every other character,
\* quotes included, belongs to the field it is in.
RECURSIVE QuoteAwareFields(_, _, _, _, _)
QuoteAwareFields(szBuffer, k, inRun, field, done) ==
    IF k > Len(szBuffer) THEN Append(done, field)
    ELSE IF szBuffer[k] = QUOTE
      THEN QuoteAwareFields(szBuffer, k + 1, ~inRun, Append(field, QUOTE), done)
    ELSE IF szBuffer[k] \in FieldBreaks /\ ~inRun
      THEN QuoteAwareFields(szBuffer, k + 1, FALSE, << >>, Append(done, field))
    ELSE QuoteAwareFields(szBuffer, k + 1, inRun, Append(field, szBuffer[k]), done)

QuoteAwareField(szBuffer, n) ==
    LET fields == QuoteAwareFields(szBuffer, 1, FALSE, << >>, << >>)
    IN  IF n < Len(fields) THEN fields[n + 1] ELSE << >>

\* C27: the token GetString returns is the field the separators outside
\* quoted runs delimit: a separator between two double quotes ends no token
\* and advances no index, a run is copied verbatim with its quotes, and a
\* doubled quote or a backslash has no meaning of its own.
C27_BoundariesOutsideQuotes ==
    pc = "token" => szSubString = QuoteAwareField(szCommandLine, argN)

C27_Witness ==
    /\ pc = "token" /\ szCommandLine = <<QUOTE, COMMA, QUOTE, COMMA, "a">>
    /\ argN = 1 /\ szSubString = <<"a">>

\* C31: GetString looks at no character of szBuffer after the terminating
\* NUL: once it has returned, the highest index it read is at most the
\* length of the string (the index of the terminator).
C31_ReadsWithinString ==
    pc \in {"token", "initiated"} => lastRead <= Len(szCommandLine)

\* C16: asked for token n (counted from 0) of a command line that has fewer
\* than n + 1 fields, GetString returns the empty string.
C16_MissingTokenIsEmpty ==
    (pc = "token" /\ QuoteFree(szCommandLine)
       /\ FieldCount(szCommandLine) < argN + 1) => szSubString = << >>

C16_Witness ==
    /\ pc = "token" /\ szCommandLine = <<"a", COMMA, "b">> /\ argN = 2
    /\ szSubString = << >>

\* C17: the application name of the broadcast depends on token 5 of the
\* command line only: ZEMAX1 or ZEMAX2 when the token is exactly that name,
\* ZEMAX otherwise (empty or missing token included), with ZEMAX_INSTANCE
\* 1, 2 and 0, and one application atom per connect.
C17_EndpointFromToken5 ==
    (pc = "initiated" /\ QuoteFree(szCommandLine)) =>
        LET token5 == Field(szCommandLine, InstanceToken)
        IN  /\ token5 = ZEMAX1 => (aApp = ZEMAX1 /\ ZEMAX_INSTANCE = 1)
            /\ token5 = ZEMAX2 => (aApp = ZEMAX2 /\ ZEMAX_INSTANCE = 2)
            /\ token5 \notin {ZEMAX1, ZEMAX2} =>
                   (aApp = ZEMAX /\ ZEMAX_INSTANCE = 0)
            /\ appAtoms = <<aApp>>

C17_Witness ==
    /\ pc = "initiated" /\ szCommandLine = InstanceLine(ZEMAX2) \o <<COMMA, "7">>
    /\ aApp = ZEMAX2 /\ ZEMAX_INSTANCE = 2 /\ appAtoms = <<ZEMAX2>>

---------------------------------------------------------------------------
\* The WM_DDE_DATA callback on its own. The caller's buffer may be longer
\* than the ray count of its header says, and the peer's payload longer than
\* the request; before any Send no result buffer is registered and the
\* replies are texts.
ReplyBuffers ==
    {BuildRD(HeaderSeq(k), n) : k \in 0..(MaxRays + 1), n \in 1..(MaxRays + 1)}

ReplyRecord(i) == [opd |-> 0, error |-> 0, x |-> 100 + i]

\* payloads of at least numRays + 1 records
RecordPayloads(numRays, rd) ==
    {[i \in 1..m |-> ReplyRecord(i)] : m \in (numRays + 1)..(Len(rd) + 1)}

TextPayloads == {<< >>, <<"O", "K">>}

ReplyInit ==
    /\ GlobalsIdle /\ ConnIdle /\ ParserIdle /\ ThreadsIdle /\ SweepIdle
    /\ pc = "client" /\ outArr = <<>>
    /\ RD \in {rd \in ReplyBuffers : NumRays(rd) < Len(rd)}
    /\ nrays = NumRays(RD)

replyOnly == <<calls, hwndClient, gPtr2RD, DdeTimeout, RETVAL, sleep_count,
               dwTime, tick, startTick, window, nrays, outArr, path, acked,
               entryRETVAL, allocs, pokeFrees, pokePosts, polls, overPolls,
               timedOut, exitRD, echoInTime, otherData, rejected, initiates,
               ZEMAX_INSTANCE, aApp, appAtoms, numbytes, hPokeSize, ret, parser,
               threads, sweep>>

\* PostArrayTraceMessage: the buffer and its ray count are registered, once
\* the reply to an earlier request has been taken from the queue
Send ==
    /\ pc = "client" /\ rdpGRD = "NULL" /\ queue = << >>
    /\ rdpGRD' = Poke(RD).rdpGRD /\ ngNumRays' = Poke(RD).ngNumRays
    /\ GotData' = Poke(RD).GotData /\ sent' = Poke(RD).Value
    /\ szGlobalBuffer' = << >>
    /\ UNCHANGED <<pc, hwndServer, RD, queue, fAckReq, fRelease, frees,
                   nDispatched, goodReply, ackFails, lateData, termPosts,
                   ackPosts, peerMsgs, nTermDispatched, replyOnly>>

\* The peer posts a WM_DDE_DATA to the window
PeerReply ==
    /\ pc = "client" /\ queue = << >> /\ peerMsgs < MaxPeerMsgs
    /\ \E fmt \in {CF_TEXT, CF_OTHER}, ackReq \in BOOLEAN, rel \in BOOLEAN :
       \E val \in IF rdpGRD = "NULL" THEN TextPayloads ELSE RecordPayloads(ngNumRays, RD) :
          /\ queue' = <<DataMsg(Zemax, fmt, val, Len(frees) + 1)>>
          /\ fAckReq' = ackReq /\ fRelease' = rel
    /\ frees' = Append(frees, 0)
    /\ peerMsgs' = peerMsgs + 1
    /\ UNCHANGED <<pc, GotData, ngNumRays, hwndServer, rdpGRD, szGlobalBuffer,
                   RD, sent, nDispatched, goodReply, ackFails, lateData,
                   termPosts, ackPosts, nTermDispatched, replyOnly>>

\* DispatchMessage hands it to WndProc
DispatchReply ==
    /\ pc = "client" /\ queue # << >>
    /\ \E postOk \in BOOLEAN :
        LET s == WndProc(Session, Head(queue), postOk)
        IN  /\ GotData' = s.GotData /\ hwndServer' = s.hwndServer
            /\ RD' = s.RD /\ szGlobalBuffer' = s.szGlobalBuffer
            /\ frees' = s.frees /\ nDispatched' = s.nDispatched
            /\ goodReply' = s.goodReply /\ ackFails' = s.ackFails
            /\ lateData' = s.lateData /\ termPosts' = s.termPosts
            /\ ackPosts' = s.ackPosts /\ nTermDispatched' = s.nTermDispatched
    /\ queue' = Tail(queue)
    /\ UNCHANGED <<pc, ngNumRays, rdpGRD, fAckReq, fRelease, sent, peerMsgs,
                   replyOnly>>

ReplyNext == Send \/ PeerReply \/ DispatchReply

ReplySpec == ReplyInit /\ [][ReplyNext]_vars

\* C19: a CF_TEXT payload dispatched while a buffer is registered is copied
\* into that buffer, records 0..ngNumRays and no other, with the ngNumRays
\* of the Send; with no buffer registered it goes to szGlobalBuffer and the
\* record buffer is left alone.
C19_ReplyCopiesCountPlusOne ==
    [][(/\ queue # << >> /\ Head(queue).type = "DATA"
        /\ Head(queue).fmt = CF_TEXT /\ nDispatched' = nDispatched + 1)
       => IF rdpGRD # "NULL"
            THEN /\ ngNumRays = NumRays(sent) /\ Len(RD') = Len(RD)
                 /\ \A i \in 1..Len(RD) :
                       RD'[i] = IF i <= ngNumRays + 1 THEN Head(queue).val[i]
                                                        ELSE RD[i]
                 /\ szGlobalBuffer' = szGlobalBuffer
            ELSE /\ RD' = RD
                 /\ szGlobalBuffer' = Head(queue).val]_vars

C19_Witness ==
    /\ pc = "client" /\ goodReply /\ rdpGRD = "RD" /\ ngNumRays = 1 /\ Len(RD) = 3
    /\ RD[1] = ReplyRecord(1) /\ RD[2] = ReplyRecord(2) /\ RD[3] = Ray(2)

---------------------------------------------------------------------------
\* numpyOpticalPathDifference up to the call of arrayTrace: the header, the
\* three nested loops that fill RD[i], and the ray count that
\* PostArrayTraceMessage then reads from the header.

\* The caller's arrays hx, hy (per field), px, py (per pupil sample) and
\* wave_num (per wavelength), indexed from 0
hx(f) == 100 + f
hy(f) == 200 + f
px(p) == 300 + p
py(p) == 400 + p
wave_num(w) == w + 1

\* a DDERAYDATA as calloc leaves it
ZeroRecord ==
    [opd |-> 0, error |-> 0, x |-> 0, y |-> 0, z |-> 0, l |-> 0,
     intensity |-> 0, wave |-> 0, want_opd |-> 0]

\* (mutant) only the first ray of the buffer is the reference ray
WantOpd_FirstRayOnly(pupil, ray) == IF ray = 1 THEN -1 ELSE 1

\* RD[i].want_opd=1; if (iPupil==0) RD[i].want_opd=-1;
WantOpd(pupil, ray) == IF pupil = 0 THEN -1 ELSE 1

OpdInit ==
    /\ GlobalsIdle /\ ConnIdle /\ ParserIdle /\ ThreadsIdle
    /\ pc = "called" /\ RD = << >> /\ nrays = 0 /\ outArr = << >>
    /\ nField \in 0..MaxDim /\ nPupil \in 0..MaxDim /\ nWave \in 0..MaxDim
    /\ iField = 0 /\ iPupil = 0 /\ iWave = 0 /\ iRay = 0

sweepFrame == <<calls, GotData, hwndServer, hwndClient, gPtr2RD, DdeTimeout,
                RETVAL, szGlobalBuffer, sleep_count, dwTime, env, outArr,
                hist, conn, parser, threads, nField, nPupil, nWave>>

\* nrays, calloc, the header in RD[0], i = 1 and the loops' initialisation
OpdHeader ==
    /\ pc = "called"
    /\ nrays' = nWave * nField * nPupil
    /\ RD' = [k \in 1..(nWave * nField * nPupil + 1) |->
                IF k = 1
                  THEN [ZeroRecord EXCEPT !.opd = 0, !.wave = 0,
                                          !.error = nWave * nField * nPupil,
                                          !.want_opd = -1]
                  ELSE ZeroRecord]
    /\ iRay' = 1 /\ iWave' = 0 /\ iField' = 0 /\ iPupil' = 0
    /\ pc' = "loop"
    /\ UNCHANGED <<sweepFrame, rdpGRD, ngNumRays>>

\* the three loop conditions hold: the body can run
InLoop == iWave < nWave /\ iField < nField /\ iPupil < nPupil

\* One pass of the innermost body, then iPupil++ and the loop ends that follow
OpdBody ==
    /\ pc = "loop" /\ InLoop
    /\ RD' = [RD EXCEPT ![iRay + 1] =
                [@ EXCEPT !.x = hx(iField), !.y = hy(iField),
                          !.z = px(iPupil), !.l = py(iPupil),
                          !.intensity = 1, !.wave = wave_num(iWave),
                          !.want_opd = WantOpd(iPupil, iRay)]]
    /\ iRay' = iRay + 1
    /\ IF iPupil + 1 < nPupil
         THEN iPupil' = iPupil + 1 /\ UNCHANGED <<iField, iWave>>
         ELSE /\ iPupil' = 0
              /\ IF iField + 1 < nField
                   THEN iField' = iField + 1 /\ UNCHANGED iWave
                   ELSE iField' = 0 /\ iWave' = iWave + 1
    /\ UNCHANGED <<pc, nrays, sweepFrame, rdpGRD, ngNumRays>>

\* The loops are over; arrayTrace is called and PostArrayTraceMessage
\* registers the buffer and decodes the ray count from the header
OpdSend ==
    /\ pc = "loop" /\ ~InLoop
    /\ rdpGRD' = "RD" /\ ngNumRays' = NumRays(RD)
    /\ pc' = "sent"
    /\ UNCHANGED <<RD, nrays, sweepFrame, iField, iPupil, iWave, iRay>>

OpdNext == OpdHeader \/ OpdBody \/ OpdSend

OpdSpec == OpdInit /\ [][OpdNext]_vars

\* C21: the buffer numpyOpticalPathDifference hands to arrayTrace has
\* nWave*nField*nPupil ray records after the header; the record of
\* (iWave, iField, iPupil) is at index 1 + (iWave*nField + iField)*nPupil +
\* iPupil and carries that field's hx, hy, that pupil sample's px, py and
\* that wavelength; want_opd is -1 for iPupil = 0 and 1 otherwise; and the
\* header decodes to the same ray count.
C21_SweepLayout ==
    pc = "sent" =>
        /\ Len(RD) = nWave * nField * nPupil + 1
        /\ iRay = nWave * nField * nPupil + 1
        /\ ngNumRays = nWave * nField * nPupil
        /\ \A w \in 0..(nWave - 1), f \in 0..(nField - 1), p \in 0..(nPupil - 1) :
              LET r == RD[1 + (w * nField + f) * nPupil + p + 1]
              IN  /\ r.x = hx(f) /\ r.y = hy(f)
                  /\ r.z = px(p) /\ r.l = py(p)
                  /\ r.wave = wave_num(w)
                  /\ r.want_opd = IF p = 0 THEN -1 ELSE 1

C21_Witness ==
    /\ pc = "sent" /\ nWave = 2 /\ nField = 2 /\ nPupil = 2 /\ Len(RD) = 9
    /\ RD[8].want_opd = -1 /\ RD[9].want_opd = 1 /\ RD[8].x = hx(1)
    /\ RD[8].wave = wave_num(1)

\* C12: whatever the peer does, a call of arrayTrace that has entered the
\* wait loop eventually leaves it, destroys its window and returns one of
\* the statuses to the caller, with no conversation left open.
C12_EveryCallReturns ==
    (pc # "idle") ~>
        (/\ pc = "idle" /\ ~window /\ hwndServer = NULL
         /\ RETVAL \in {STATUS_OK, STATUS_TIMEOUT, STATUS_UNREACHABLE})

C12_Witness ==
    /\ Returned /\ ~window /\ path = "timeout"
    /\ nTermDispatched > 0 /\ nDispatched > 0

C20_FailureLeavesOutputsUnwritten ==
    Returned =>
        /\ path \in {"noack", "pokefail", "timeout"} =>
               (RETVAL # STATUS_OK /\ outArr = Unwritten(nrays))
        /\ RETVAL # STATUS_OK => outArr = Unwritten(nrays)
        /\ outArr # Unwritten(nrays) =>
               (RETVAL = STATUS_OK /\ outArr = FillOutputs(RD, nrays))

C20_Witness ==
    /\ Returned /\ path = "timeout" /\ goodReply /\ RETVAL = STATUS_TIMEOUT
    /\ outArr = Unwritten(nrays) /\ FillOutputs(RD, nrays) # Unwritten(nrays)

\* C22: PostArrayTraceMessage returns 0 when a WM_DDE_DATA was dispatched
\* before the wait ended (GotData = 1 at its exit), and -1 when the poke
\* could not be posted or the wait ended on the timeout with no reply.
C22_PostReturnsZeroIffReply ==
    (Returned /\ acked) =>
        /\ ret = (IF pokePosts = 1 /\ nDispatched > 0 THEN 0 ELSE -1)
        /\ ret = 0 <=> (pokePosts = 1 /\ GotData = 1)

C22_Witness ==
    /\ Returned /\ acked /\ path = "timeout" /\ nDispatched = 0 /\ ret = -1
    /\ calls = 2 /\ entryRETVAL = STATUS_OK

\* The messages taken from the queue by one WaitForData iteration are all
\* acknowledgements
OnlyAcksQueued ==
    pc = "wait" /\ queue # << >> /\ \A k \in 1..Len(queue) : queue[k].type = "ACK"

\* C23: a WaitForData iteration that dispatches nothing but WM_DDE_ACK while
\* a peer is bound leaves the peer handle, GotData, rdpGRD, ngNumRays and
\* the caller's buffer as they were; the status changes only if the same
\* iteration detects the timeout.
C23_LateAckChangesNothing ==
    [][(OnlyAcksQueued /\ hwndServer # NULL /\ polls' = polls + 1) =>
          /\ hwndServer' = hwndServer /\ GotData' = GotData
          /\ rdpGRD' = rdpGRD /\ ngNumRays' = ngNumRays /\ RD' = RD
          /\ szGlobalBuffer' = szGlobalBuffer
          /\ RETVAL' # RETVAL => (timedOut' /\ ~timedOut)]_vars

C23_Witness ==
    /\ pc = "wait" /\ polls = 1 /\ peerMsgs = 2 /\ queue = << >>
    /\ nDispatched = 0 /\ nTermDispatched = 0 /\ hwndServer = Zemax
    /\ GotData = 0

\* C24: hwndServer, when not NULL, is the window that was first to
\* acknowledge the WM_DDE_INITIATE broadcast of the call (Zemax, in every
\* order of AckSeqs); no acknowledgement that arrives later binds it.
C24_BoundOnlyByBroadcast ==
    hwndServer # NULL => (acked /\ hwndServer = Zemax)

\* C28: every WM_DDE_TERMINATE the client posts goes to the peer bound by
\* the broadcast, never to a NULL handle, and that peer gets at most one
\* per call; a poke is posted only to a bound peer.
C28_NoPostToNullHandle ==
    /\ \A k \in 1..Len(termPosts) : termPosts[k] = Zemax
    /\ Len(termPosts) <= 1
    /\ pokePosts > 0 => acked

\* C29: when arrayTrace has returned, whichever way PostArrayTraceMessage
\* was left (reply, timeout, poke not posted), rdpGRD is NULL.
C29_NoBufferPointerKept ==
    Returned => rdpGRD = "NULL"

\* The CF_TEXT replies among the messages one WaitForData iteration takes
\* from the queue, by position
TextReplies ==
    {k \in 1..Len(queue) : queue[k].type = "DATA" /\ queue[k].fmt = CF_TEXT}

\* C30: of the data messages dispatched by one WaitForData iteration only
\* the first accepted reply is copied: after the iteration the caller's
\* buffer holds the records of the first CF_TEXT payload, whatever was
\* dispatched after it.
C30_FirstReplyOnly ==
    [][(pc = "wait" /\ polls' = polls + 1 /\ TextReplies # {}) =>
          LET first == CHOOSE k \in TextReplies : \A j \in TextReplies : k <= j
          IN  \A k \in 1..(ngNumRays + 1) : RD'[k] = queue[first].val[k]]_vars

\* C25: GotData is cleared when the request starts and by nothing else
\* until the wait is over: from the post of the poke to the return of the
\* call GotData is 1 exactly if a WM_DDE_DATA of this call has been
\* dispatched, so a reply's GotData = 1 is what WaitForData tests.
C25_FlagSurvivesUntilTested ==
    (pokePosts = 1 /\ acked) =>
        /\ GotData = 1 <=> nDispatched > 0
        /\ (pc = "wait" /\ polls > 0) => GotData = 0
        /\ path = "completed" => GotData = 1

C25_Witness ==
    /\ pc = "waitdone" /\ calls = 2 /\ polls = 1 /\ GotData = 1
    /\ nDispatched = 1 /\ path = "completed"

\* C26: the timeout in force is the larger of the caller's timeout and
\* DDE_TIMEOUT; WaitForData reports a timeout only when more than that has
\* elapsed since the wait began, and only in an iteration whose number is a
\* multiple of 11, the others not looking at the clock.
C26_TimeoutIsMaxAndChecked ==
    calls > 0 =>
        /\ DdeTimeout >= DDE_TIMEOUT
        /\ \E t \in Timeouts : DdeTimeout \in {t, DDE_TIMEOUT} /\ DdeTimeout >= t
        /\ timedOut =>
              /\ polls * SLEEP_MS > DdeTimeout
              /\ polls % (SLEEP_CHECK + 1) = 0
        /\ pc = "waitdone" /\ timedOut =>
              U32Gt(U32Sub(tick, dwTime), DdeTimeout)

C26_Witness ==
    /\ Returned /\ timedOut /\ DdeTimeout = 1100
    /\ polls = 2 * (SLEEP_CHECK + 1) /\ RETVAL = STATUS_TIMEOUT

\* C32: the elapsed time WaitForData compares with DdeTimeout is the time
\* that has passed since dwTime was taken, also when GetTickCount() has
\* wrapped to 0 in between: no timeout is declared before the time waited
\* exceeds DdeTimeout, and a call still waiting after a check of the clock
\* has not waited longer than DdeTimeout.
Waited == polls * SLEEP_MS

C32_ElapsedAcrossWrap ==
    pc \in {"wait", "waitdone"} =>
        /\ U32Sub(tick, dwTime) = U32(0, Waited)
        /\ timedOut => Waited > DdeTimeout
        /\ (pc = "wait" /\ polls > 0 /\ polls % (SLEEP_CHECK + 1) = 0) =>
              Waited <= DdeTimeout

C32_Witness ==
    /\ pc = "waitdone" /\ timedOut /\ RETVAL = STATUS_TIMEOUT
    /\ dwTime = TickBeforeWrap(1050) /\ tick = U32(0, 50)
    /\ polls = SLEEP_CHECK + 1 /\ DdeTimeout = DDE_TIMEOUT

\* The second call was started while the first was awaiting its reply
SecondCallDuringWait ==
    \E a, b \in Threads : tentry[a] = "idle" /\ tentry[b] = "wait"

\* C11: when a second thread calls arrayTrace while the first call awaits its
\* reply, every reply is copied into the buffer of the request it answers,
\* with the ray count of that request, and a thread returns -998 only after
\* its own wait has reached the timeout.
C11_NoCrossTalk ==
    SecondCallDuringWait =>
        /\ \A e \in copyLog : \E t \in Threads :
              e[2] = t /\ e[1] = pRAD(t) /\ e[3] = NumRays(CallerBuffer(t))
        /\ \A t \in Threads :
              (tpc[t] = "returned" /\ tret[t] = STATUS_TIMEOUT) =>
                  tpolls[t] * SLEEP_MS > DDE_TIMEOUT

====
